---- MODULE Spec2Model ----
(***************************************************************************)
(* Profile image pipeline of project/accounts/models.py:                   *)
(*   Profile.save / Profile.resize_profile_image  (normalisation)          *)
(*   Profile.profile_image_thumb                  (lazy imagekit thumb)    *)
(*   Profile.profile_image_url / profile_image_thumb_url  (URL fallback)   *)
(*                                                                         *)
(* Images are modelled as uniformly coloured rasters: a width, a height,   *)
(* a PIL mode, one colour value and one value of the fourth band (the      *)
(* alpha band of an RGBA image).  Crop boxes are exact rationals, kept as  *)
(* integer numerators over a common denominator.                           *)
(***************************************************************************)
EXTENDS Integers, FiniteSets, Sequences, TLC

\* ---- bounds of the model ------------------------------------------------
MaxDim == 3
MaxTarget == 2
MaxThumb == 2
MaxFiles == 2

\* ---- values ---------------------------------------------------------------
WHITE_BG == 255
\* No file: what a storage holds under a name no file has.
NoFile == [fmt |-> "none", w |-> 0, h |-> 0, mode |-> "none", px |-> 0]
\* A file that has disappeared from the storage (its name is not handed out
\* again: upload_to names every upload anew).
Lost == [fmt |-> "lost", w |-> 0, h |-> 0, mode |-> "none", px |-> 0]
\* The empty profile_image field (blank=True, null=True).
NoName == 0
Procs == {1, 2}
Names == 1..MaxFiles
Modes == {"L", "RGB", "RGBA", "LA", "P", "CMYK"}
Colours == {0, WHITE_BG}
Alphas == {0, 255}
TargetSizes == (1..MaxTarget) \X (1..MaxTarget)
ThumbSizes == (1..MaxThumb) \X (1..MaxThumb)

\* What a client can put in the profile_image field: an undecodable byte
\* stream, or an image file with a header size, a mode and pixel content.
UploadsOfSizes(dims) ==
    [decodable : {TRUE}, w : dims, h : dims, mode : Modes,
     px : Colours, band4 : Alphas]
    \cup
    [decodable : {FALSE}, w : {0}, h : {0}, mode : {"L"}, px : {0}, band4 : {255}]

Uploads == UploadsOfSizes(0..MaxDim)

\* The uploads the whole pipeline is run on: the largest dark images in
\* every mode, opaque and transparent, an image of size zero, and an
\* undecodable stream (the normaliser alone is run on all of Uploads).
PipeUploads ==
    {u \in Uploads :
        \/ ~u.decodable
        \/ u.w = MaxDim /\ u.h = MaxDim /\ u.px = 0
        \/ u.w = 0 /\ u.h = 0 /\ u.mode = "RGB" /\ u.px = 0 /\ u.band4 = 255}

\* The deployments the whole pipeline is run on: a square one and a skewed
\* one (the normaliser alone is run on every size).
PipeSettings ==
    {[SIZE |-> <<MaxTarget, MaxTarget>>, THUMB_SIZE |-> <<1, 1>>],
     [SIZE |-> <<MaxTarget, 1>>, THUMB_SIZE |-> <<1, MaxThumb>>]}

\* ---- PIL, as called by resize_profile_image ------------------------------

\* Number of bands Image.split() returns for a mode.
Bands(mode) ==
    CASE mode = "L" -> 1
      [] mode = "P" -> 1
      [] mode = "LA" -> 2
      [] mode = "RGB" -> 3
      [] mode = "RGBA" -> 4
      [] mode = "CMYK" -> 4

\* Image.open(self.profile_image): the plugin's header parse; ImageFile
\* refuses a header whose size is not positive on both axes, and Image.open
\* then reports the stream as unidentified.
ImageOpenAnySize(u) ==
    IF ~u.decodable
    THEN [ok |-> FALSE, err |-> "UnidentifiedImageError"]
    ELSE [ok |-> TRUE, err |-> "none"]

ImageOpen(u) ==
    IF ~u.decodable \/ u.w <= 0 \/ u.h <= 0
    THEN [ok |-> FALSE, err |-> "UnidentifiedImageError"]
    ELSE [ok |-> TRUE, err |-> "none"]

\* ImageOps.fit(image, size, method, centering=(0.5, 0.5)), bleed 0: the crop
\* box, in source coordinates, of the largest centred region with the
\* aspect ratio of size.  Coordinates are numerators over den.
\*   live_size_ratio = w / h ; output_ratio = tw / th
FitBoxSwapped(w, h, size) ==
    LET tw == size[1]
        th == size[2]
    IN  IF w * th = tw * h
        THEN [left |-> 0, top |-> 0, right |-> w, bottom |-> h, den |-> 1]
        ELSE IF w * th <= tw * h
        THEN [left |-> w * th - tw * h, top |-> 0,
              right |-> (w * th - tw * h) + 2 * tw * h, bottom |-> 2 * th * h,
              den |-> 2 * th]
        ELSE [left |-> 0, top |-> h * tw - w * th,
              right |-> 2 * tw * w, bottom |-> (h * tw - w * th) + 2 * w * th,
              den |-> 2 * tw]

FitBox(w, h, size) ==
    LET tw == size[1]
        th == size[2]
    IN  IF w * th = tw * h
        THEN \* same ratio: the whole image
             [left |-> 0, top |-> 0, right |-> w, bottom |-> h, den |-> 1]
        ELSE IF w * th >= tw * h
        THEN \* wider than needed: crop the sides, crop_width = tw/th * h
             [left |-> w * th - tw * h, top |-> 0,
              right |-> (w * th - tw * h) + 2 * tw * h, bottom |-> 2 * th * h,
              den |-> 2 * th]
        ELSE \* taller than needed: crop top and bottom, crop_height = w / (tw/th)
             [left |-> 0, top |-> h * tw - w * th,
              right |-> 2 * tw * w, bottom |-> (h * tw - w * th) + 2 * w * th,
              den |-> 2 * tw]

\* Image.resize(size, method, box=crop) accepts the box only inside the image.
BoxInside(box, w, h) ==
    /\ box.left >= 0
    /\ box.top >= 0
    /\ box.right <= w * box.den
    /\ box.bottom <= h * box.den
    /\ box.right > box.left
    /\ box.bottom > box.top

\* Dimensions of the buffer Image.resize returns.
ResizedToBox(size, box) ==
    <<(box.right - box.left) \div box.den, (box.bottom - box.top) \div box.den>>

Resized(size, box) == size

\* white_bg_img.paste(profile_image, mask=mask): one output value of the
\* composite of a pixel px over the background under mask value a.
Paste(px, a) == (px * a + WHITE_BG * (255 - a)) \div 255

\* Modes Image.save(..., "JPEG") can write.
JpegModes == {"L", "RGB", "CMYK"}
\* The outcome of resize_profile_image on the file u held by self.profile_image,
\* with settings.PROFILE_IMG["SIZE"] = size:
\*   status/err  whether the method returned, or which exception left it
\*   resized     whether ImageOps.fit was entered
\*   fitted      the dimensions of the buffer ImageOps.fit returned
\*   box         the crop box ImageOps.fit used
\*   img         self.profile_image when the method is left
AsStored(u) == [fmt |-> "upload", w |-> u.w, h |-> u.h, mode |-> u.mode, px |-> u.px]

NoBox == [left |-> 0, top |-> 0, right |-> 0, bottom |-> 0, den |-> 1]

Raised(u, e, entered, dims, b) ==
    [status |-> "error", err |-> e, resized |-> entered, fitted |-> dims,
     box |-> b, img |-> AsStored(u)]

\* Nothing under normalisation, and no result yet.
NoUpload == [decodable |-> FALSE, w |-> 0, h |-> 0, mode |-> "L", px |-> 0, band4 |-> 255]

Pending ==
    [status |-> "pending", err |-> "none", resized |-> FALSE, fitted |-> <<0, 0>>,
     box |-> NoBox, img |-> NoFile]

resize_profile_image(u, size) ==
    LET opened == ImageOpen(u)
        box == FitBox(u.w, u.h, size)
        dims == Resized(size, box)
        flat == u.mode \notin {"L", "RGB"}
        outmode == IF flat THEN "RGB" ELSE u.mode
        outpx == IF flat THEN Paste(u.px, u.band4) ELSE u.px
    IN  IF ~opened.ok THEN Raised(u, opened.err, FALSE, <<0, 0>>, NoBox)
        ELSE IF u.h = 0 THEN Raised(u, "ZeroDivisionError", TRUE, <<0, 0>>, NoBox)
        ELSE IF ~BoxInside(box, u.w, u.h) THEN Raised(u, "ValueError", TRUE, <<0, 0>>, box)
        ELSE IF flat /\ Bands(u.mode) < 4 THEN Raised(u, "IndexError", TRUE, dims, box)
        ELSE IF outmode \notin JpegModes THEN Raised(u, "OSError", TRUE, dims, box)
        ELSE [status |-> "ok", err |-> "none", resized |-> TRUE, fitted |-> dims,
              box |-> box,
              img |-> [fmt |-> "JPEG", w |-> dims[1], h |-> dims[2],
                       mode |-> outmode, px |-> outpx]]
\* ---- imagekit, as configured by the profile_image_thumb spec field --------

\* ceil(a / b) for a >= 0, b > 0
CeilDiv(a, b) == (a + b - 1) \div b

\* ResizeToFill(THUMB_SIZE[0], THUMB_SIZE[1]): ResizeToCover (scale by
\* max(tw/w, th/h), sizes rounded up), then a centred Crop to (tw, th).
CoverSize(w, h, tsize) ==
    LET tw == tsize[1]
        th == tsize[2]
    IN  IF tw * h >= th * w
        THEN <<tw, CeilDiv(h * tw, w)>>
        ELSE <<CeilDiv(w * th, h), th>>

\* The file the spec field generates from a source file: processors, then
\* format="JPEG".
ThumbOf(src, tsize) ==
    LET cover == CoverSize(src.w, src.h, tsize)
    IN  [fmt |-> "JPEG",
         w |-> IF cover[1] >= tsize[1] THEN tsize[1] ELSE cover[1],
         h |-> IF cover[2] >= tsize[2] THEN tsize[2] ELSE cover[2],
         mode |-> src.mode, px |-> src.px]

\* The cache file backend's existence check for the cache file named after
\* the source file n and the spec.
CacheNeverExists(c, n) == FALSE

CacheExists(c, n) == c[n] # NoFile

\* ImageCacheFile._generate: storage.save(self.name, content).  The storage
\* overwrites no file: content saved under a name a racing request has
\* filled meanwhile goes to another name, and the cache file stays.
CachePutNothing(c, n, bytes) == c

CachePut(c, n, bytes) == IF c[n] = NoFile THEN [c EXCEPT ![n] = bytes] ELSE c

\* ---- django file storage, as called by super().save() ---------------------

\* The name super().save() stores an uncommitted profile_image under:
\* upload_to's name passed through Storage.get_available_name, a name no
\* file of the storage has.  Names are opaque, so the free names are used
\* in order.
\* default_storage.exists(os.path.join(MEDIA_ROOT, name))
StorageExists(f, n) == f[n] # NoFile /\ f[n] # Lost

FreeNames(f) == {n \in Names : f[n] = NoFile}

AnyName(f) == Names

AvailableNames(f) == {n \in FreeNames(f) : \A m \in FreeNames(f) : n <= m}

\* ---- state ----------------------------------------------------------------
VARIABLES
    PROFILE_IMG,    \* settings.PROFILE_IMG: SIZE and THUMB_SIZE
    files,          \* media storage: name -> stored profile image, or NoFile
    cache,          \* imagekit cache files: source name -> thumbnail, or NoFile
    profile_image,  \* the profile_image column of the Profile row: a name, or NoName
    pc,             \* per request: where its profile_image_thumb_url call is
    key,            \* per request: the source name its instance was loaded with
    snap,           \* per request: the source file when existence was checked
    ret,            \* what the last finished URL property call returned
    saveRes,        \* how the last Profile.save() call ended
    gens,           \* source name -> number of thumbnail generations run
    requested,      \* source names whose thumbnail has been asked for
    served,         \* source name -> thumbnail last returned for it, or NoFile
    lastPut,        \* source name -> thumbnail last written for it, or NoFile
    upload,         \* the file under normalisation (normaliser runs only)
    norm            \* its resize_profile_image result (normaliser runs only)

vars == <<PROFILE_IMG, files, cache, profile_image, pc, key, snap, ret, saveRes,
          gens, requested, served, lastPut, upload, norm>>

pipeVars == <<files, cache, profile_image, pc, key, snap, ret, saveRes,
              gens, requested, served, lastPut>>

PLACEHOLDER == "/static/img/no_image_md.png"

NoRet == [op |-> "none", kind |-> "none", via |-> "none", key |-> NoName,
          bytes |-> NoFile, src |-> NoFile]

InitPipe ==
    /\ files = [n \in Names |-> NoFile]
    /\ cache = [n \in Names |-> NoFile]
    /\ profile_image = NoName
    /\ pc = [p \in Procs |-> "idle"]
    /\ key = [p \in Procs |-> NoName]
    /\ snap = [p \in Procs |-> NoFile]
    /\ ret = NoRet
    /\ saveRes = "none"
    /\ gens = [n \in Names |-> 0]
    /\ requested = {}
    /\ served = [n \in Names |-> NoFile]
    /\ lastPut = [n \in Names |-> NoFile]

Init ==
    /\ PROFILE_IMG \in PipeSettings
    /\ InitPipe
    /\ upload = NoUpload
    /\ norm = Pending

\* ---- Profile.save ---------------------------------------------------------

\* Whether save() gets from resize_profile_image to super().save(): an
\* exception raised by resize_profile_image leaves save() at once.
AlwaysReaches(r) == TRUE

ReachesSuperSave(r) == r.status = "ok"

\* The thumbnail cache after save() stored the image under name n: this
\* resize_profile_image creates no thumbnail.
EagerThumb(c, n, img) == [c EXCEPT ![n] = ThumbOf(img, PROFILE_IMG.THUMB_SIZE)]

CacheAfterSave(c, n, img) == c

\* save() with the file u in self.profile_image.
SaveWith(u) ==
    LET r == resize_profile_image(u, PROFILE_IMG.SIZE)
    IN  IF ReachesSuperSave(r)
        THEN \E n \in AvailableNames(files) :
                /\ files' = [files EXCEPT ![n] = r.img]
                /\ profile_image' = n
                /\ cache' = CacheAfterSave(cache, n, r.img)
                /\ saveRes' = "ok"
                /\ UNCHANGED <<PROFILE_IMG, pc, key, snap, ret, gens, requested,
                               served, lastPut, upload, norm>>
        ELSE /\ saveRes' = "error"
             /\ UNCHANGED <<PROFILE_IMG, files, cache, profile_image, pc, key, snap,
                            ret, gens, requested, served, lastPut, upload, norm>>

\* A request assigns a new upload to profile_image and saves.
SaveUpload == \E u \in PipeUploads : SaveWith(u)

\* The stored file, as Image.open reads it back.
AsUpload(f) ==
    [decodable |-> TRUE, w |-> f.w, h |-> f.h, mode |-> f.mode, px |-> f.px,
     band4 |-> 255]

\* A request saves the profile without touching profile_image: the field
\* still holds the stored file (or nothing).
SaveAgain ==
    IF profile_image = NoName
    THEN /\ saveRes' = "ok"
         /\ UNCHANGED <<PROFILE_IMG, files, cache, profile_image, pc, key, snap,
                        ret, gens, requested, served, lastPut, upload, norm>>
    ELSE IF ~StorageExists(files, profile_image)
    THEN \* Image.open cannot read the file
         /\ saveRes' = "error"
         /\ UNCHANGED <<PROFILE_IMG, files, cache, profile_image, pc, key, snap,
                        ret, gens, requested, served, lastPut, upload, norm>>
    ELSE SaveWith(AsUpload(files[profile_image]))

\* A request clears profile_image and saves.
SaveCleared ==
    /\ profile_image # NoName
    /\ profile_image' = NoName
    /\ saveRes' = "ok"
    /\ UNCHANGED <<PROFILE_IMG, files, cache, pc, key, snap, ret, gens, requested,
                   served, lastPut, upload, norm>>
\* ---- the URL properties ---------------------------------------------------

Returned(op, kind, via, n, bytes, src) ==
    [op |-> op, kind |-> kind, via |-> via, key |-> n, bytes |-> bytes, src |-> src]


\* Profile.profile_image_url, on an instance loaded from the row.
ProfileImageUrl ==
    /\ ret' = IF profile_image # NoName /\ StorageExists(files, profile_image)
              THEN Returned("image_url", "url", "none", profile_image,
                            files[profile_image], files[profile_image])
              ELSE Returned("image_url", "placeholder", "none", profile_image,
                            NoFile, NoFile)
    /\ UNCHANGED <<PROFILE_IMG, files, cache, profile_image, pc, key, snap, saveRes,
                   gens, requested, served, lastPut, upload, norm>>

\* Profile.profile_image_thumb_url in request p, up to the truth test of
\* self.profile_image_thumb: the instance is loaded from the row, the spec
\* field names the cache file after the source, and the cache file asks for
\* existence.  With the file present the property returns its URL here.
ThumbUrlStart(p) ==
    /\ pc[p] = "idle"
    /\ IF profile_image = NoName
       THEN /\ ret' = Returned("thumb_url", "placeholder", "none", NoName, NoFile, NoFile)
            /\ UNCHANGED <<pc, key, snap, requested, served>>
       ELSE /\ requested' = requested \cup {profile_image}
            /\ IF CacheExists(cache, profile_image)
               THEN /\ ret' = Returned("thumb_url", "url", "hit", profile_image,
                                       cache[profile_image], files[profile_image])
                    /\ served' = [served EXCEPT ![profile_image] = cache[profile_image]]
                    /\ UNCHANGED <<pc, key, snap>>
               ELSE /\ pc' = [pc EXCEPT ![p] = "generate"]
                    /\ key' = [key EXCEPT ![p] = profile_image]
                    /\ snap' = [snap EXCEPT ![p] = files[profile_image]]
                    /\ UNCHANGED <<ret, served>>
    /\ UNCHANGED <<PROFILE_IMG, files, cache, profile_image, saveRes, gens, lastPut,
                   upload, norm>>

\* ... and from there on: the strategy generates the missing cache file from
\* the source file, the cache file is stored, and the property returns.
ThumbUrlGenerate(p) ==
    /\ pc[p] = "generate"
    /\ pc' = [pc EXCEPT ![p] = "idle"]
    /\ key' = [key EXCEPT ![p] = NoName]
    /\ snap' = [snap EXCEPT ![p] = NoFile]
    /\ IF ~StorageExists(files, key[p])
       THEN \* the source cannot be opened: the exception leaves the property
            /\ ret' = Returned("thumb_url", "error", "miss", key[p], NoFile, snap[p])
            /\ UNCHANGED <<cache, gens, served, lastPut>>
       ELSE LET bytes == ThumbOf(files[key[p]], PROFILE_IMG.THUMB_SIZE)
                stored == CachePut(cache, key[p], bytes)
            IN  /\ cache' = stored
                /\ gens' = [gens EXCEPT ![key[p]] = @ + 1]
                /\ lastPut' = [lastPut EXCEPT ![key[p]] = bytes]
                /\ IF StorageExists(stored, key[p])
                   THEN /\ ret' = Returned("thumb_url", "url", "miss", key[p],
                                           stored[key[p]], snap[p])
                        /\ served' = [served EXCEPT ![key[p]] = stored[key[p]]]
                   ELSE /\ ret' = Returned("thumb_url", "placeholder", "miss", key[p],
                                           NoFile, snap[p])
                        /\ UNCHANGED served
    /\ UNCHANGED <<PROFILE_IMG, files, profile_image, saveRes, requested, upload, norm>>

\* ---- the environment ------------------------------------------------------

\* The file of the current profile image disappears from the media storage.
Lose ==
    /\ profile_image # NoName
    /\ StorageExists(files, profile_image)
    /\ files' = [files EXCEPT ![profile_image] = Lost]
    /\ UNCHANGED <<PROFILE_IMG, cache, profile_image, pc, key, snap, ret, saveRes,
                   gens, requested, served, lastPut, upload, norm>>

\* ---- specifications -------------------------------------------------------

Next ==
    \/ SaveUpload
    \/ SaveAgain
    \/ SaveCleared
    \/ ProfileImageUrl
    \/ \E p \in Procs : ThumbUrlStart(p)
    \/ \E p \in Procs : ThumbUrlGenerate(p)

Spec == Init /\ [][Next]_vars

\* The same program over a storage that can lose files.
NextLoss ==
    \/ Next
    \/ Lose

SpecLoss == Init /\ [][NextLoss]_vars

\* The normaliser alone, on every upload.
InitNorm ==
    /\ PROFILE_IMG \in [SIZE : TargetSizes, THUMB_SIZE : ThumbSizes]
    /\ InitPipe
    /\ upload \in Uploads
    /\ norm = Pending

Normalize ==
    /\ norm = Pending
    /\ norm' = resize_profile_image(upload, PROFILE_IMG.SIZE)
    /\ UNCHANGED <<PROFILE_IMG, upload>>
    /\ UNCHANGED pipeVars

SpecNorm == InitNorm /\ [][Normalize]_vars
\* ---- properties -----------------------------------------------------------

SIZE == PROFILE_IMG.SIZE
THUMB_SIZE == PROFILE_IMG.THUMB_SIZE

\* A source Image.open decodes to a raster with both dimensions positive.
ValidSource(u) == u.decodable /\ u.w > 0 /\ u.h > 0

\* C1: for every valid source (w, h > 0) and every target size, of whatever
\* aspect ratios, the fit step succeeds and returns a buffer of exactly the
\* target size: the crop box lies inside the source, is centred, has the
\* target's aspect ratio and spans the source on one axis (so that the
\* source scaled by s = max(tw/w, th/h) is nowhere smaller than the target),
\* and an asset that comes out of the normalisation has the target size.
C1_FitYieldsTargetSize ==
    (norm # Pending /\ ValidSource(upload)) =>
        LET b == norm.box
        IN  /\ norm.resized
            /\ norm.fitted = SIZE
            /\ BoxInside(b, upload.w, upload.h)
            /\ b.left = upload.w * b.den - b.right
            /\ b.top = upload.h * b.den - b.bottom
            /\ (b.right - b.left) * SIZE[2] = (b.bottom - b.top) * SIZE[1]
            /\ \/ b.right - b.left = upload.w * b.den
               \/ b.bottom - b.top = upload.h * b.den
            /\ norm.status = "ok" => <<norm.img.w, norm.img.h>> = SIZE

\* C1 witness: a source wider than the target was cropped at the sides and
\* came out at the target size.
C1_Witness ==
    /\ norm.status = "ok"
    /\ upload.w * SIZE[2] > SIZE[1] * upload.h
    /\ norm.box.left > 0
    /\ <<norm.img.w, norm.img.h>> = SIZE
    /\ <<upload.w, upload.h>> # SIZE

\* C2: every valid source whose mode is neither grayscale nor plain RGB is
\* normalised successfully to an RGB buffer, in which a fully transparent
\* source pixel shows the background colour.
C2_AlphaFlattened ==
    (norm # Pending /\ ValidSource(upload) /\ upload.mode \notin {"L", "RGB"}) =>
        /\ norm.status = "ok"
        /\ norm.img.mode = "RGB"
        /\ upload.band4 = 0 => norm.img.px = WHITE_BG

Normalized(f) ==
    /\ f.fmt = "JPEG"
    /\ <<f.w, f.h>> = SIZE
    /\ f.mode \in {"L", "RGB"}

\* C3: no stale thumbnail is served: every cache file is the thumbnail of
\* the file its source name holds now, and a request answered from the
\* cache gets the thumbnail of the source its profile row names.
C3_NoStaleThumbnail ==
    /\ \A n \in Names : cache[n] # NoFile => cache[n] = ThumbOf(files[n], THUMB_SIZE)
    /\ ret.via = "hit" => ret.bytes = ThumbOf(ret.src, THUMB_SIZE)

\* C3 witness: after a thumbnail was cached for one source, the source was
\* replaced and a request was answered from the cache with the different
\* thumbnail of the new source.
C3_Witness ==
    \E n \in Names :
        /\ cache[n] # NoFile
        /\ n # profile_image
        /\ ret.via = "hit"
        /\ ret.key = profile_image
        /\ ret.bytes # cache[n]

\* C4: a URL property never fails; it returns the placeholder for an empty
\* field and the URL of an existing file otherwise.
C4_ResolveNeverFails ==
    /\ ret.kind # "error"
    /\ (ret.op # "none" /\ ret.key = NoName) => ret.kind = "placeholder"
    /\ ret.kind = "url" => (ret.bytes # NoFile /\ ret.bytes # Lost)

\* C5: a save either persists a complete normalised asset or writes nothing:
\* a step that ends a save in failure leaves the stored files, the profile
\* row and the thumbnail cache as they were, and a step that changes a
\* stored file or the row is a save that succeeded and leaves the row with
\* no image or with a normalised asset.
C5_FailedSaveWritesNothing ==
    [][/\ (saveRes' = "error" /\ saveRes # "error")
            => UNCHANGED <<files, profile_image, cache>>
       /\ (files' # files \/ profile_image' # profile_image)
            => /\ saveRes' = "ok"
               /\ profile_image' # NoName => Normalized(files'[profile_image'])
               /\ \A n \in Names :
                     files'[n] # files[n] => (files[n] = NoFile /\ n = profile_image')]_vars

\* C5 witness: a save has failed while an earlier normalised asset is the
\* profile image.
C5_Witness ==
    /\ saveRes = "error"
    /\ profile_image # NoName
    /\ Normalized(files[profile_image])

\* C6: a thumbnail request for a source whose thumbnail has been returned
\* before returns the same bytes in one step from the cache: nothing is
\* generated and neither the cache nor the storage changes.
C6_SecondDeriveIsPureRead ==
    [][\A p \in Procs :
          (ThumbUrlStart(p) /\ profile_image # NoName /\ served[profile_image] # NoFile)
              => /\ UNCHANGED <<cache, gens, files, pc>>
                 /\ ret'.kind = "url"
                 /\ ret'.via = "hit"
                 /\ ret'.bytes = served[profile_image]]_vars

\* C6 witness: a request was answered from the cache with the bytes of the
\* one generation run for its source.
C6_Witness ==
    /\ ret.via = "hit"
    /\ gens[ret.key] = 1
    /\ served[ret.key] = ret.bytes
    /\ lastPut[ret.key] = ret.bytes

LazyInv ==
    /\ \A n \in Names : cache[n] # NoFile => (n \in requested /\ gens[n] >= 1)
    /\ \A n \in Names : gens[n] >= 1 => cache[n] # NoFile
    /\ ret.via = "miss" => cache[ret.key] = ret.bytes

C10_OnlyNormalizedPersisted ==
    /\ profile_image # NoName => Normalized(files[profile_image])
    /\ \A n \in Names : files[n] # NoFile => Normalized(files[n])
    /\ \A n \in Names : cache[n] # NoFile =>
          (Normalized(files[n]) /\ <<cache[n].w, cache[n].h>> = THUMB_SIZE)
    /\ (ret.op = "thumb_url" /\ ret.kind = "url") => Normalized(ret.src)

\* C10 witness: a transparent upload was saved, flattened to a white RGB
\* asset of size SIZE, and its thumbnail was generated and returned.
C10_Witness ==
    /\ profile_image # NoName
    /\ files[profile_image].mode = "RGB"
    /\ files[profile_image].px = WHITE_BG
    /\ <<files[profile_image].w, files[profile_image].h>> = SIZE
    /\ cache[profile_image] # NoFile
    /\ ret.op = "thumb_url"
    /\ ret.kind = "url"
    /\ ret.key = profile_image
====
